---------------------------- MODULE Spec2Model ----------------------------
(***************************************************************************)
(* go-multiaddr-net, convert.go: conversion between net.Addr values and    *)
(* multiaddrs (FromNetAddr, ToNetAddr, FromIP, DialArgs and the per        *)
(* protocol converters of the AddressSpecs).                               *)
(*                                                                         *)
(* A Go string is a sequence of one-character strings, a net.IP is a       *)
(* sequence of bytes (<<>> is the nil IP), and a multiaddr is the sequence *)
(* of its segments, each a protocol name with the bytes of its value.      *)
(***************************************************************************)
EXTENDS Integers, Sequences, FiniteSets, TLC

\* ------------------------------------------------------------------------
\* Strings
\* ------------------------------------------------------------------------

s_empty == <<>>
s_ip == <<"i", "p">>
s_ip4 == <<"i", "p", "4">>
s_ip6 == <<"i", "p", "6">>
s_tcp == <<"t", "c", "p">>
s_tcp4 == <<"t", "c", "p", "4">>
s_tcp6 == <<"t", "c", "p", "6">>
s_udp == <<"u", "d", "p">>
s_udp4 == <<"u", "d", "p", "4">>
s_udp6 == <<"u", "d", "p", "6">>
s_utp == <<"u", "t", "p">>
s_utp4 == <<"u", "t", "p", "4">>
s_utp6 == <<"u", "t", "p", "6">>
s_sctp == <<"s", "c", "t", "p">>
s_ipnet == <<"i", "p", "+", "n", "e", "t">>
s_unix == <<"u", "n", "i", "x">>

HexDigits == <<"0", "1", "2", "3", "4", "5", "6", "7",
               "8", "9", "a", "b", "c", "d", "e", "f">>

\* The value of a digit character in the given base, -1 when it is none.
DigitVal(c, base) ==
    LET hits == {i \in 1..base : HexDigits[i] = c}
    IN IF hits = {} THEN -1 ELSE (CHOOSE i \in hits : TRUE) - 1

\* strconv.Itoa / fmt's %d: decimal digits, "-" before a negative number.
RECURSIVE Itoa(_)
Itoa(n) ==
    IF n < 0 THEN <<"-">> \o Itoa(0 - n)
    ELSE IF n < 10 THEN <<HexDigits[n + 1]>>
    ELSE Itoa(n \div 10) \o <<HexDigits[(n % 10) + 1]>>

\* net's itox(n, 1): lower-case hexadecimal without leading zeros.
RECURSIVE Itox(_)
Itox(n) ==
    IF n < 16 THEN <<HexDigits[n + 1]>>
    ELSE Itox(n \div 16) \o <<HexDigits[(n % 16) + 1]>>

\* The number a string of digits of the given base denotes; -1 when the
\* string is empty or holds another character.
AddDigit(hi, d, base) == IF hi < 0 \/ d < 0 THEN -1 ELSE hi * base + d

RECURSIVE ParseNum(_, _)
ParseNum(s, base) ==
    IF Len(s) = 0 THEN -1
    ELSE AddDigit(IF Len(s) = 1 THEN 0
                  ELSE ParseNum(SubSeq(s, 1, Len(s) - 1), base),
                  DigitVal(s[Len(s)], base), base)

\* The index of the first c in s at or after position from; 0 when none.
RECURSIVE IndexFrom(_, _, _)
IndexFrom(s, c, from) ==
    IF from > Len(s) THEN 0
    ELSE IF s[from] = c THEN from
    ELSE IndexFrom(s, c, from + 1)

\* strings.Split(s, sep) for a one-character separator.
RECURSIVE Split(_, _)
SplitAt(s, sep, k) ==
    IF k = 0 THEN <<s>>
    ELSE <<SubSeq(s, 1, k - 1)>> \o Split(SubSeq(s, k + 1, Len(s)), sep)

Split(s, sep) == SplitAt(s, sep, IndexFrom(s, sep, 1))

\* strings.Join(parts, sep).
RECURSIVE Join(_, _)
Join(parts, sep) ==
    IF Len(parts) = 0 THEN <<>>
    ELSE IF Len(parts) = 1 THEN parts[1]
    ELSE parts[1] \o sep \o Join(Tail(parts), sep)


\* ------------------------------------------------------------------------
\* net.IP
\* ------------------------------------------------------------------------

\* net.IP.To4: the 4-byte form of a 4-byte IP or of a 16-byte IPv4-mapped
\* IP (ten zero bytes, then 0xff 0xff); nil otherwise.
To4(ip) ==
    IF Len(ip) = 4 THEN ip
    ELSE IF /\ Len(ip) = 16
            /\ \A i \in 1..10 : ip[i] = 0
            /\ ip[11] = 255
            /\ ip[12] = 255
         THEN SubSeq(ip, 13, 16)
    ELSE <<>>

\* net.IPv4(a, b, c, d): the 16-byte IPv4-mapped form.
IPv4(b) == <<0, 0, 0, 0, 0, 0, 0, 0, 0, 0, 255, 255>> \o b

\* net.IP.To16.
To16(ip) ==
    IF Len(ip) = 4 THEN IPv4(ip)
    ELSE IF Len(ip) = 16 THEN ip
    ELSE <<>>

\* net.IP.Equal: an IPv4 address and its IPv4-mapped form are the same IP.
IPEqual(x, y) ==
    IF Len(x) = Len(y) THEN x = y
    ELSE IF Len(x) = 4 /\ Len(y) = 16 THEN To4(y) = x
    ELSE IF Len(x) = 16 /\ Len(y) = 4 THEN To4(x) = y
    ELSE FALSE

\* The eight 16-bit groups of a 16-byte IP.
Groups(ip) == [i \in 1..8 |-> ip[2 * i - 1] * 256 + ip[2 * i]]

\* The length of the run of zero groups that starts at group i.
RECURSIVE ZeroRun(_, _)
ZeroRun(g, i) ==
    IF i > Len(g) \/ g[i] # 0 THEN 0 ELSE 1 + ZeroRun(g, i + 1)

\* net.IP.String: dotted decimal for an IP with a 4-byte form; otherwise
\* colon-separated hexadecimal groups, the first longest run of two or more
\* zero groups written "::".
\* The start of the first longest run of zero groups.
LongestZeroRun(g) ==
    CHOOSE i \in 1..8 :
        /\ \A j \in 1..8 : ZeroRun(g, j) <= ZeroRun(g, i)
        /\ \A j \in 1..(i - 1) : ZeroRun(g, j) < ZeroRun(g, i)

\* The groups in hexadecimal, the run of n zero groups at e0 written "::"
\* when n is two or more.
HexGroups(hex, e0, n) ==
    IF n < 2 THEN Join(hex, <<":">>)
    ELSE Join(SubSeq(hex, 1, e0 - 1), <<":">>)
         \o <<":", ":">>
         \o Join(SubSeq(hex, e0 + n, 8), <<":">>)

IPv6String(g, e0) == HexGroups([i \in 1..8 |-> Itox(g[i])], e0, ZeroRun(g, e0))

DottedString(p4) == Join([i \in 1..4 |-> Itoa(p4[i])], <<".">>)

IPString(ip) ==
    IF Len(ip) = 0 THEN <<"<", "n", "i", "l", ">">>
    ELSE IF Len(To4(ip)) = 4 THEN DottedString(To4(ip))
    ELSE IF Len(ip) # 16 THEN <<"?">>
    ELSE IPv6String(Groups(ip), LongestZeroRun(Groups(ip)))

\* net's parseIPv4: four decimal fields of at most 255, as the 16-byte form.
IPv4OfFields(n) ==
    IF Len(n) = 4 /\ \A i \in 1..4 : n[i] >= 0 /\ n[i] <= 255
    THEN IPv4(n)
    ELSE <<>>

\* The number each field denotes in the base (-1 when it denotes none).
FieldNums(f, base) == [i \in 1..Len(f) |-> ParseNum(f[i], base)]

ParseIPv4(s) == IPv4OfFields(FieldNums(Split(s, "."), 10))

\* The groups a colon-separated list of hexadecimal fields denotes; <<-1>>
\* when a field is empty, is no hexadecimal number or exceeds 0xFFFF.
GroupsOfFields(n) ==
    IF \A i \in 1..Len(n) : n[i] >= 0 /\ n[i] <= 65535 THEN n ELSE <<-1>>

HexFields(s) ==
    IF Len(s) = 0 THEN <<>>
    ELSE GroupsOfFields(FieldNums(Split(s, ":"), 16))

GroupBytes(g) ==
    [i \in 1..(2 * Len(g)) |->
        IF i % 2 = 1 THEN g[(i + 1) \div 2] \div 256 ELSE g[i \div 2] % 256]

\* net's parseIPv6 on the forms IP.String writes: up to eight hexadecimal
\* groups, one "::" standing for the missing zero groups.
\* The index of the first "::" in s; 0 when none.
EllipsisIndex(s) ==
    CHOOSE i \in 0..Len(s) :
        /\ i = 0 \/ (i < Len(s) /\ s[i] = ":" /\ s[i + 1] = ":")
        /\ \A j \in 1..(Len(s) - 1) :
               (s[j] = ":" /\ s[j + 1] = ":") => (i # 0 /\ i <= j)

\* The 16 bytes of the groups l, the zero groups "::" stands for, and the
\* groups r ("::" stands for one group at least); of the eight groups l
\* when there is no "::".
ExpandEllipsis(l, r, ellipsis) ==
    IF (Len(l) > 0 /\ l[1] < 0) \/ (Len(r) > 0 /\ r[1] < 0) THEN <<>>
    ELSE IF ~ellipsis THEN (IF Len(l) = 8 THEN GroupBytes(l) ELSE <<>>)
    ELSE IF Len(l) + Len(r) > 7 THEN <<>>
    ELSE GroupBytes(l \o [i \in 1..(8 - Len(l) - Len(r)) |-> 0] \o r)

ParseIPv6At(s, k) ==
    IF k = 0 THEN ExpandEllipsis(HexFields(s), <<>>, FALSE)
    ELSE ExpandEllipsis(HexFields(SubSeq(s, 1, k - 1)),
                        HexFields(SubSeq(s, k + 2, Len(s))), TRUE)

ParseIPv6(s) == ParseIPv6At(s, EllipsisIndex(s))

\* net.ParseIP: the 16-byte IP a textual IPv4 or IPv6 address denotes, nil
\* when the text is neither.  The first "." or ":" decides the syntax.
ParseIP(s) ==
    LET dot == IndexFrom(s, ".", 1)
        colon == IndexFrom(s, ":", 1)
    IN IF dot # 0 /\ (colon = 0 \/ dot < colon) THEN ParseIPv4(s)
       ELSE IF colon # 0 THEN ParseIPv6(s)
       ELSE <<>>


\* ------------------------------------------------------------------------
\* Errors
\* ------------------------------------------------------------------------

Err(kind, arg) == [kind |-> kind, arg |-> arg]

NoErr == Err("nil", <<>>)

\* var errIncorrectNetAddr
errIncorrectNetAddr == Err("IncorrectNetAddr", <<>>)

\* ------------------------------------------------------------------------
\* go-multiaddr: a Multiaddr is the sequence of its segments
\* ------------------------------------------------------------------------

Seg(name, val) == [name |-> name, val |-> val]

\* The nil Multiaddr a failed conversion returns.
NilMaddr == <<>>

\* The number of value bytes of the protocol of that name; -1 when the
\* protocol table has no such name.
ProtocolSize(name) ==
    CASE name = s_ip4 -> 4
      [] name = s_ip6 -> 16
      [] name \in {s_tcp, s_udp, s_sctp} -> 2
      [] name = s_utp -> 0
      [] OTHER -> -1

\* Multiaddr.Protocols(): the protocol of each segment, outermost first.
Protocols(m) == [i \in 1..Len(m) |-> m[i].name]

\* Multiaddr.Encapsulate(o): the segments of m followed by those of o.
Encapsulate(m, o) == m \o o

\* The text of a segment's value: an IP by net.IP.String, a port as the
\* decimal of its two big-endian bytes.
AddressString(seg) ==
    IF ProtocolSize(seg.name) = 2
    THEN Itoa(seg.val[1] * 256 + seg.val[2])
    ELSE IPString(seg.val)

\* Multiaddr.String(): "/" and the protocol name of each segment, then "/"
\* and its value when the protocol has one.
RECURSIVE String(_)
String(m) ==
    IF Len(m) = 0 THEN <<>>
    ELSE <<"/">> \o m[1].name
         \o (IF ProtocolSize(m[1].name) = 0 THEN <<>>
             ELSE <<"/">> \o AddressString(m[1]))
         \o String(Tail(m))

\* strconv.Atoi: ParseNum with an optional sign; ok is FALSE when the text
\* is no decimal number.
Signed(s) == Len(s) > 0 /\ s[1] \in {"-", "+"}

AtoiOf(s, n) == [ok |-> n >= 0, n |-> IF Signed(s) /\ s[1] = "-" THEN 0 - n ELSE n]

Atoi(s) == AtoiOf(s, ParseNum(IF Signed(s) THEN Tail(s) ELSE s, 10))

\* The bytes of a segment's value from its text (<<-1>> when the text is
\* refused): an ip4 needs an IP with a 4-byte form, an ip6 any IP; a port
\* is refused when it is no number or is 65536 or more, and is otherwise
\* stored as uint16(port), in two big-endian bytes.
IPBytes(name, ip) ==
    IF name = s_ip4
    THEN (IF To4(ip) = <<>> THEN <<-1>> ELSE To4(ip))
    ELSE (IF To16(ip) = <<>> THEN <<-1>> ELSE To16(ip))

PortBytes(i) ==
    IF ~i.ok \/ i.n >= 65536 THEN <<-1>>
    ELSE <<(i.n % 65536) \div 256, i.n % 256>>

AddressBytes(name, s) ==
    IF name \in {s_ip4, s_ip6} THEN IPBytes(name, ParseIP(s))
    ELSE PortBytes(Atoi(s))

\* The segments the components sp (the text split on "/") denote; a lone
\* segment named "!" when a name is unknown or a value missing or refused.
BadSegments == <<Seg(<<"!">>, <<>>)>>

ConsSegment(seg, rest) ==
    IF seg.val = <<-1>> \/ rest = BadSegments THEN BadSegments
    ELSE <<seg>> \o rest

RECURSIVE ParseSegments(_)
ParseSegments(sp) ==
    IF Len(sp) = 0 THEN <<>>
    ELSE IF ProtocolSize(sp[1]) < 0 THEN BadSegments
    ELSE IF ProtocolSize(sp[1]) = 0
         THEN ConsSegment(Seg(sp[1], <<>>), ParseSegments(Tail(sp)))
    ELSE IF Len(sp) < 2 THEN BadSegments
    ELSE ConsSegment(Seg(sp[1], AddressBytes(sp[1], sp[2])),
                     ParseSegments(Tail(Tail(sp))))

\* strings.TrimRight(s, "/").
RECURSIVE TrimRight(_)
TrimRight(s) ==
    IF Len(s) > 0 /\ s[Len(s)] = "/" THEN TrimRight(SubSeq(s, 1, Len(s) - 1))
    ELSE s

\* ma.NewMultiaddr(s): the text, less its trailing "/", must start with "/".
MultiaddrOfSegments(s, segs) ==
    IF segs = BadSegments
    THEN [err |-> Err("ParseMultiaddr", s), m |-> NilMaddr]
    ELSE [err |-> NoErr, m |-> segs]

MultiaddrOfParts(s, sp) ==
    MultiaddrOfSegments(s, IF sp[1] # <<>> THEN BadSegments
                           ELSE ParseSegments(Tail(sp)))

NewMultiaddr(s) == MultiaddrOfParts(s, Split(TrimRight(s), "/"))


\* ------------------------------------------------------------------------
\* net.Addr values
\* ------------------------------------------------------------------------

\* A net.Addr: its concrete type, the string its Network() reports, and the
\* IP and port it holds.  A utp.Addr wraps a child, whose concrete type,
\* IP and port it carries.
Addr(type, net, childType, ip, port) ==
    [type |-> type, net |-> net, childType |-> childType,
     ip |-> ip, port |-> port]

NilAddr == Addr("nil", s_empty, "none", <<>>, 0)

TCPAddr(ip, port) == Addr("TCPAddr", s_tcp, "none", ip, port)

UDPAddr(ip, port) == Addr("UDPAddr", s_udp, "none", ip, port)

IPAddr(ip) == Addr("IPAddr", s_ip, "none", ip, 0)

IPNet(ip) == Addr("IPNet", s_ipnet, "none", ip, 0)

\* utp.MakeAddr(child)
UtpAddr(child) == Addr("utp.Addr", s_utp, child.type, child.ip, child.port)

\* utp.Addr.Child()
Child(a) ==
    CASE a.childType = "UDPAddr" -> UDPAddr(a.ip, a.port)
      [] a.childType = "TCPAddr" -> TCPAddr(a.ip, a.port)
      [] OTHER -> NilAddr

\* ------------------------------------------------------------------------
\* The platform's resolvers
\* ------------------------------------------------------------------------

\* The index of the last c in s; 0 when none.
LastIndex(s, c) ==
    IF \A i \in 1..Len(s) : s[i] # c THEN 0
    ELSE CHOOSE i \in 1..Len(s) :
            s[i] = c /\ \A j \in (i + 1)..Len(s) : s[j] # c

\* net.SplitHostPort: "host:port" or "[host]:port"; a host with a colon
\* must be in brackets.
NoHostPort == [ok |-> FALSE, host |-> <<>>, port |-> <<>>]

SplitHostPortAt(hostport, i, close) ==
    IF i = 0 THEN NoHostPort
    ELSE IF hostport[1] = "["
         THEN (IF close = 0 \/ close + 1 # i THEN NoHostPort
               ELSE [ok |-> TRUE,
                     host |-> SubSeq(hostport, 2, close - 1),
                     port |-> SubSeq(hostport, i + 1, Len(hostport))])
    ELSE IF IndexFrom(SubSeq(hostport, 1, i - 1), ":", 1) # 0 THEN NoHostPort
    ELSE [ok |-> TRUE,
          host |-> SubSeq(hostport, 1, i - 1),
          port |-> SubSeq(hostport, i + 1, Len(hostport))]

SplitHostPort(hostport) ==
    SplitHostPortAt(hostport, LastIndex(hostport, ":"), IndexFrom(hostport, "]", 1))

\* Whether a literal IP suits the network: a name that ends in "4" takes
\* an IP with a 4-byte form only, one that ends in "6" an IP without.
FamilyOk(network, ip) ==
    CASE network[Len(network)] = "4" -> To4(ip) # <<>>
      [] network[Len(network)] = "6" -> Len(ip) = 16 /\ To4(ip) = <<>>
      [] OTHER -> TRUE

\* The IP and port of a literal "ip:port" for the network.
InternetAddr(network, hostport, ok, ip, port) ==
    IF ok /\ ip # <<>> /\ port >= 0 /\ port <= 65535 /\ FamilyOk(network, ip)
    THEN [err |-> NoErr, ip |-> ip, port |-> port]
    ELSE [err |-> Err("Resolve", hostport), ip |-> <<>>, port |-> 0]

ResolveHostPort(network, hostport, hp) ==
    InternetAddr(network, hostport, hp.ok, ParseIP(hp.host), ParseNum(hp.port, 10))

ResolveInternetAddr(network, hostport) ==
    ResolveHostPort(network, hostport, SplitHostPort(hostport))

\* net.ResolveTCPAddr(network, host)
TCPAddrOf(r) ==
    [err |-> r.err,
     addr |-> IF r.err = NoErr THEN TCPAddr(r.ip, r.port) ELSE NilAddr]

ResolveTCPAddr(network, host) == TCPAddrOf(ResolveInternetAddr(network, host))

\* net.ResolveUDPAddr(network, host)
UDPAddrOf(r) ==
    [err |-> r.err,
     addr |-> IF r.err = NoErr THEN UDPAddr(r.ip, r.port) ELSE NilAddr]

ResolveUDPAddr(network, host) == UDPAddrOf(ResolveInternetAddr(network, host))

\* net.ResolveIPAddr(network, host): the host is a literal IP.
IPAddrOf(network, host, ip) ==
    IF ip # <<>> /\ FamilyOk(network, ip)
    THEN [err |-> NoErr, addr |-> IPAddr(ip)]
    ELSE [err |-> Err("Resolve", host), addr |-> NilAddr]

ResolveIPAddr(network, host) == IPAddrOf(network, host, ParseIP(host))

\* utp.ResolveAddr(network, host): the UDP address of the same family,
\* wrapped.
UtpAddrOf(r) ==
    [err |-> r.err, addr |-> IF r.err = NoErr THEN UtpAddr(r.addr) ELSE NilAddr]

UtpResolveAddr(network, host) ==
    UtpAddrOf(ResolveUDPAddr(s_udp \o SubSeq(network, 4, Len(network)), host))


\* ------------------------------------------------------------------------
\* Thin waist (ip.go)
\* ------------------------------------------------------------------------

\* IsThinWaist(m): the protocols of m are an IP alone, an IP then tcp or
\* udp, or an IP then udp then utp.
IsThinWaist(m) ==
    LET p == Protocols(m)
    IN /\ Len(p) \in 1..3
       /\ p[1] \in {s_ip4, s_ip6}
       /\ Len(p) >= 2 => p[2] \in {s_tcp, s_udp}
       /\ Len(p) = 3 => (p[2] = s_udp /\ p[3] = s_utp)

\* ------------------------------------------------------------------------
\* convert.go
\* ------------------------------------------------------------------------

\* FromIP with the 16-byte form tried first.
FromIP_To16First(ip) ==
    IF To16(ip) # <<>>
    THEN NewMultiaddr(<<"/">> \o s_ip6 \o <<"/">> \o IPString(ip))
    ELSE IF To4(ip) # <<>>
    THEN NewMultiaddr(<<"/">> \o s_ip4 \o <<"/">> \o IPString(ip))
    ELSE [err |-> errIncorrectNetAddr, m |-> NilMaddr]

\* FromIP converts a net.IP type to a Multiaddr.
FromIP(ip) ==
    IF To4(ip) # <<>>
    THEN NewMultiaddr(<<"/">> \o s_ip4 \o <<"/">> \o IPString(ip))
    ELSE IF To16(ip) # <<>>
    THEN NewMultiaddr(<<"/">> \o s_ip6 \o <<"/">> \o IPString(ip))
    ELSE [err |-> errIncorrectNetAddr, m |-> NilMaddr]

\* DialArgsOfParts without the override of "udp" by "utp".
DialArgsOfParts_NoUtp(parts) ==
    IF Len(parts) = 2
    THEN [network |-> parts[1], host |-> parts[2], err |-> NoErr]
    ELSE CASE parts[1] = s_ip4 ->
                 [network |-> parts[3] \o <<"4">>,
                  host |-> Join(<<parts[2], parts[4]>>, <<":">>),
                  err |-> NoErr]
           [] parts[1] = s_ip6 ->
                 [network |-> parts[3] \o <<"6">>,
                  host |-> <<"[">> \o parts[2] \o <<"]", ":">> \o parts[4],
                  err |-> NoErr]
           [] OTHER ->
                 [network |-> parts[3], host |-> s_empty, err |-> NoErr]

\* DialArgsOfParts with the host of an ip6 address joined as that of an ip4.
DialArgsOfParts_NoBrackets(parts) ==
    IF Len(parts) = 2
    THEN [network |-> parts[1], host |-> parts[2], err |-> NoErr]
    ELSE LET network ==
                 IF parts[3] = s_udp /\ Len(parts) > 4 /\ parts[5] = s_utp
                 THEN parts[5] ELSE parts[3]
         IN [network |-> network \o <<parts[1][3]>>,
             host |-> Join(<<parts[2], parts[4]>>, <<":">>),
             err |-> NoErr]

\* DialArgs, from "if len(parts) == 2" on: parts is strings.Split(str, "/")[1:].
DialArgsOfParts(parts) ==
    IF Len(parts) = 2
    THEN [network |-> parts[1], host |-> parts[2], err |-> NoErr]
    ELSE LET network ==
                 IF parts[3] = s_udp /\ Len(parts) > 4 /\ parts[5] = s_utp
                 THEN parts[5] ELSE parts[3]
         IN CASE parts[1] = s_ip4 ->
                    [network |-> network \o <<"4">>,
                     host |-> Join(<<parts[2], parts[4]>>, <<":">>),
                     err |-> NoErr]
              [] parts[1] = s_ip6 ->
                    [network |-> network \o <<"6">>,
                     host |-> <<"[">> \o parts[2] \o <<"]", ":">> \o parts[4],
                     err |-> NoErr]
              [] OTHER ->
                    [network |-> network, host |-> s_empty, err |-> NoErr]

\* DialArgs with a check of the first two protocols only.
DialArgs_TwoProtocols(m) ==
    IF ~(/\ Len(m) >= 1
         /\ m[1].name \in {s_ip4, s_ip6}
         /\ Len(m) >= 2 => m[2].name \in {s_tcp, s_udp})
    THEN [network |-> s_empty, host |-> s_empty,
          err |-> Err("NotThinWaist", String(m))]
    ELSE DialArgsOfParts(Tail(Split(String(m), "/")))

\* DialArgs returns the network and host arguments for net.Dial.
DialArgs(m) ==
    IF ~IsThinWaist(m)
    THEN [network |-> s_empty, host |-> s_empty,
          err |-> Err("NotThinWaist", String(m))]
    ELSE DialArgsOfParts(Tail(Split(String(m), "/")))

\* What a resolver returned, with the resolver's name.
Resolved(resolver, r) == [err |-> r.err, addr |-> r.addr, resolver |-> resolver]

\* ResolveDialArgs without the return on the error of DialArgs.
ResolveDialArgs_IgnoreErr(d) ==
    CASE d.network \in {s_tcp, s_tcp4, s_tcp6} ->
            Resolved("net.ResolveTCPAddr", ResolveTCPAddr(d.network, d.host))
      [] d.network \in {s_udp, s_udp4, s_udp6} ->
            Resolved("net.ResolveUDPAddr", ResolveUDPAddr(d.network, d.host))
      [] d.network \in {s_utp, s_utp4, s_utp6} ->
            Resolved("utp.ResolveAddr", UtpResolveAddr(d.network, d.host))
      [] d.network \in {s_ip, s_ip4, s_ip6} ->
            Resolved("net.ResolveIPAddr", ResolveIPAddr(d.network, d.host))
      [] OTHER ->
            [err |-> Err("NetworkNotSupported", d.network),
             addr |-> NilAddr, resolver |-> "none"]

\* parseBasicNetMaddr, after its call of DialArgs has returned d.
ResolveDialArgs(d) ==
    IF d.err # NoErr
    THEN [err |-> d.err, addr |-> NilAddr, resolver |-> "none"]
    ELSE CASE d.network \in {s_tcp, s_tcp4, s_tcp6} ->
                 Resolved("net.ResolveTCPAddr", ResolveTCPAddr(d.network, d.host))
           [] d.network \in {s_udp, s_udp4, s_udp6} ->
                 Resolved("net.ResolveUDPAddr", ResolveUDPAddr(d.network, d.host))
           [] d.network \in {s_utp, s_utp4, s_utp6} ->
                 Resolved("utp.ResolveAddr", UtpResolveAddr(d.network, d.host))
           [] d.network \in {s_ip, s_ip4, s_ip6} ->
                 Resolved("net.ResolveIPAddr", ResolveIPAddr(d.network, d.host))
           [] OTHER ->
                 [err |-> Err("NetworkNotSupported", d.network),
                  addr |-> NilAddr, resolver |-> "none"]

\* parseBasicNetMaddr: the ConvertMultiaddr of every AddressSpec.
parseBasicNetMaddr(maddr) == ResolveDialArgs(DialArgs(maddr))

IncorrectNetAddr == [err |-> errIncorrectNetAddr, m |-> NilMaddr]

\* The end of parseTcpNetAddr, parseUdpNetAddr and parseUtpNetAddr: ipm is
\* what FromIP returned and tm what ma.NewMultiaddr returned for the
\* transport.
EncapsulateTransport(ipm, tm) ==
    IF ipm.err # NoErr THEN IncorrectNetAddr
    ELSE IF tm.err # NoErr THEN IncorrectNetAddr
    ELSE [err |-> NoErr, m |-> Encapsulate(ipm.m, tm.m)]

\* parseTcpNetAddr without the check of the concrete type.
parseTcpNetAddr_AnyType(a) ==
    EncapsulateTransport(
        FromIP(a.ip),
        NewMultiaddr(<<"/">> \o s_tcp \o <<"/">> \o Itoa(a.port)))

\* parseTcpNetAddr: the ParseNetAddr of tcpAddrSpec.
parseTcpNetAddr(a) ==
    IF a.type # "TCPAddr" THEN IncorrectNetAddr
    ELSE EncapsulateTransport(
            FromIP(a.ip),
            NewMultiaddr(<<"/">> \o s_tcp \o <<"/">> \o Itoa(a.port)))

\* parseUdpNetAddr: the ParseNetAddr of udpAddrSpec.
parseUdpNetAddr(a) ==
    IF a.type # "UDPAddr" THEN IncorrectNetAddr
    ELSE EncapsulateTransport(
            FromIP(a.ip),
            NewMultiaddr(<<"/">> \o s_udp \o <<"/">> \o Itoa(a.port)))

\* parseUtpNetAddr: the ParseNetAddr of utpAddrSpec.
parseUtpNetAddr(a) ==
    IF a.type # "utp.Addr" THEN IncorrectNetAddr
    ELSE IF Child(a).type # "UDPAddr" THEN IncorrectNetAddr
    ELSE EncapsulateTransport(
            FromIP(Child(a).ip),
            NewMultiaddr(<<"/">> \o s_udp \o <<"/">> \o Itoa(Child(a).port)
                         \o <<"/">> \o s_utp))

\* parseIpNetAddr: the ParseNetAddr of ip4AddrSpec and ip6AddrSpec.
parseIpNetAddr(a) ==
    IF a.type # "IPAddr" THEN IncorrectNetAddr
    ELSE FromIP(a.ip)

\* parseIpPlusNetAddr: the ParseNetAddr of no AddressSpec of convert.go.
parseIpPlusNetAddr(a) ==
    IF a.type # "IPNet" THEN IncorrectNetAddr
    ELSE FromIP(a.ip)

tcpAddrSpec ==
    [Key |-> s_tcp, NetNames |-> <<s_tcp, s_tcp4, s_tcp6>>,
     ParseNetAddr |-> "parseTcpNetAddr", ConvertMultiaddr |-> "parseBasicNetMaddr"]

udpAddrSpec ==
    [Key |-> s_udp, NetNames |-> <<s_udp, s_udp4, s_udp6>>,
     ParseNetAddr |-> "parseUdpNetAddr", ConvertMultiaddr |-> "parseBasicNetMaddr"]

utpAddrSpec ==
    [Key |-> s_utp, NetNames |-> <<s_utp, s_utp4, s_utp6>>,
     ParseNetAddr |-> "parseUtpNetAddr", ConvertMultiaddr |-> "parseBasicNetMaddr"]

ip4AddrSpec ==
    [Key |-> s_ip4, NetNames |-> <<s_ip4>>,
     ParseNetAddr |-> "parseIpNetAddr", ConvertMultiaddr |-> "parseBasicNetMaddr"]

ip6AddrSpec ==
    [Key |-> s_ip6, NetNames |-> <<s_ip6>>,
     ParseNetAddr |-> "parseIpNetAddr", ConvertMultiaddr |-> "parseBasicNetMaddr"]

\* The call p(a) of a ParseNetAddr function value.
CallAddrParser(p, a) ==
    CASE p = "parseTcpNetAddr" -> parseTcpNetAddr(a)
      [] p = "parseUdpNetAddr" -> parseUdpNetAddr(a)
      [] p = "parseUtpNetAddr" -> parseUtpNetAddr(a)
      [] p = "parseIpNetAddr" -> parseIpNetAddr(a)
      [] p = "parseIpPlusNetAddr" -> parseIpPlusNetAddr(a)

\* The call p(maddr) of a ConvertMultiaddr function value.
CallMaddrParser(p, maddr) ==
    CASE p = "parseBasicNetMaddr" -> parseBasicNetMaddr(maddr)

\* ------------------------------------------------------------------------
\* The registry (registry.go)
\* ------------------------------------------------------------------------

\* The AddressSpecs registered when the package is initialised.
RegisteredSpecs == {tcpAddrSpec, udpAddrSpec, utpAddrSpec, ip4AddrSpec, ip6AddrSpec}

\* getAddrParser(net): the ParseNetAddr of the spec that lists the network
\* name among its NetNames.
getAddrParser(net) ==
    LET hits == {s \in RegisteredSpecs :
                    \E i \in 1..Len(s.NetNames) : s.NetNames[i] = net}
    IN IF hits = {} THEN [err |-> Err("UnsupportedNetwork", net), p |-> "none"]
       ELSE [err |-> NoErr, p |-> (CHOOSE s \in hits : TRUE).ParseNetAddr]

\* getMaddrParser(name): the ConvertMultiaddr of the spec whose Key is the
\* protocol name.
getMaddrParser(name) ==
    LET hits == {s \in RegisteredSpecs : s.Key = name}
    IN IF hits = {} THEN [err |-> Err("UnsupportedNetwork", name), p |-> "none"]
       ELSE [err |-> NoErr, p |-> (CHOOSE s \in hits : TRUE).ConvertMultiaddr]

\* ------------------------------------------------------------------------
\* convert.go: the two entry points.  Beside what the function returns, a
\* result names the converter and the resolver that were called.
\* ------------------------------------------------------------------------

\* What the ParseNetAddr function p returned.
Parsed(p, r) == [err |-> r.err, m |-> r.m, parser |-> p]

\* FromNetAddr, after getAddrParser has returned g.
FromNetAddrWith(g, a) ==
    IF g.err # NoErr
    THEN [err |-> g.err, m |-> NilMaddr, parser |-> "none"]
    ELSE Parsed(g.p, CallAddrParser(g.p, a))

\* FromNetAddr without the check for nil.
FromNetAddr_NoNilCheck(a) == FromNetAddrWith(getAddrParser(a.net), a)

\* FromNetAddr converts a net.Addr type to a Multiaddr.
FromNetAddr(a) ==
    IF a.type = "nil"
    THEN [err |-> Err("NilMultiaddr", <<>>), m |-> NilMaddr, parser |-> "none"]
    ELSE FromNetAddrWith(getAddrParser(a.net), a)

\* What the ConvertMultiaddr function p returned.
Converted(p, r) ==
    [panicked |-> FALSE, err |-> r.err, addr |-> r.addr,
     parser |-> p, resolver |-> r.resolver]

\* ToNetAddr, after getMaddrParser has returned g.
ToNetAddrWith(g, maddr) ==
    IF g.err # NoErr
    THEN [panicked |-> FALSE, err |-> g.err, addr |-> NilAddr,
          parser |-> "none", resolver |-> "none"]
    ELSE Converted(g.p, CallMaddrParser(g.p, maddr))

\* ToNetAddr with the first protocol taken for the final one.
ToNetAddr_First(maddr) ==
    IF Len(Protocols(maddr)) = 0
    THEN [panicked |-> TRUE, err |-> NoErr, addr |-> NilAddr,
          parser |-> "none", resolver |-> "none"]
    ELSE ToNetAddrWith(getMaddrParser(Protocols(maddr)[1]), maddr)

\* ToNetAddr converts a Multiaddr to a net.Addr.  protos[len(protos)-1] of
\* an empty protocol list is an index out of range: the goroutine panics.
ToNetAddr(maddr) ==
    IF Len(Protocols(maddr)) = 0
    THEN [panicked |-> TRUE, err |-> NoErr, addr |-> NilAddr,
          parser |-> "none", resolver |-> "none"]
    ELSE ToNetAddrWith(getMaddrParser(Protocols(maddr)[Len(Protocols(maddr))]),
                       maddr)

\* ------------------------------------------------------------------------
\* The calls a program makes
\* ------------------------------------------------------------------------

\* The longest protocol stack of the multiaddrs of every shape.
MaxSegs == 3

ip4_a == <<1, 2, 3, 4>>
ip4_b == <<10, 0, 0, 255>>
ip6_lo == <<0, 0, 0, 0, 0, 0, 0, 0, 0, 0, 0, 0, 0, 0, 0, 1>>
ip6_doc == <<32, 1, 13, 184, 0, 0, 0, 0, 0, 0, 0, 0, 0, 0, 0, 1>>
ip6_compat == <<0, 0, 0, 0, 0, 0, 0, 0, 0, 0, 0, 0, 1, 2, 3, 4>>

\* The net.IP values of the native addresses: nil, 4-byte, 16-byte
\* (IPv4-mapped and not), and one of another length.
IPs == {<<>>, ip4_a, IPv4(ip4_b), ip6_lo, ip6_doc, ip6_compat, <<1, 2, 3, 4, 5>>}

\* The ports of the native addresses.  The field is an int: it can hold a
\* number that is no port.
Ports == {0, 80, 65535, 65536}

\* The net.Addr values handed to FromNetAddr and to the ParseNetAddr
\* functions: nil, the platform's types, utp addresses over a UDP and over
\* a TCP child, and addresses of another type that report a network name.
NetAddrs ==
    {NilAddr}
    \cup {TCPAddr(i, p) : i \in IPs, p \in Ports}
    \cup {UDPAddr(i, p) : i \in IPs, p \in Ports}
    \cup {IPAddr(i) : i \in IPs}
    \cup {IPNet(i) : i \in {ip4_a, ip6_lo}}
    \cup {UtpAddr(UDPAddr(i, p)) : i \in IPs, p \in Ports}
    \cup {UtpAddr(TCPAddr(i, 80)) : i \in {ip4_a, ip6_lo}}
    \cup {Addr("other", n, "none", ip4_a, 80) :
            n \in {s_tcp, s_udp4, s_utp6, s_ip4, s_ip6, s_unix}}
    \cup {UDPAddr(ip6_doc, -1), UtpAddr(UDPAddr(ip6_doc, -1))}

\* The segments of the multiaddrs of every shape.
ShapeSegs ==
    {Seg(s_ip4, ip4_a), Seg(s_ip6, ip6_lo), Seg(s_tcp, <<0, 80>>),
     Seg(s_udp, <<0, 9>>), Seg(s_utp, <<>>), Seg(s_sctp, <<0, 5>>)}

\* The IP segments and the port values of the multiaddrs of the thin-waist
\* shapes.  An ip6 segment can hold any 16 bytes.
IPSegs ==
    {Seg(s_ip4, i) : i \in {ip4_a, ip4_b}}
    \cup {Seg(s_ip6, i) : i \in {ip6_lo, ip6_doc, ip6_compat, IPv4(ip4_a)}}

PortVals == {<<0, 0>>, <<4, 210>>, <<255, 255>>}

\* The multiaddrs handed to ToNetAddr and DialArgs.
Maddrs ==
    UNION {[1..n -> ShapeSegs] : n \in 0..MaxSegs}
    \cup {<<i>> : i \in IPSegs}
    \cup {<<i, Seg(t, p)>> : i \in IPSegs, t \in {s_tcp, s_udp}, p \in PortVals}
    \cup {<<i, Seg(s_udp, p), Seg(s_utp, <<>>)>> : i \in IPSegs, p \in PortVals}

VARIABLES
    op,     \* the call made last; "idle" between calls
    a,      \* the net.Addr argument
    m,      \* the Multiaddr argument
    ip,     \* the net.IP argument
    key,    \* the Key of the AddressSpec whose ParseNetAddr was called
    rm,     \* what a conversion to a Multiaddr returned
    ra,     \* what ToNetAddr returned
    rd      \* what DialArgs returned

vars == <<op, a, m, ip, key, rm, ra, rd>>

NoRm == [err |-> NoErr, m |-> NilMaddr, parser |-> "none"]
NoRa == [panicked |-> FALSE, err |-> NoErr, addr |-> NilAddr,
         parser |-> "none", resolver |-> "none"]
NoRd == [network |-> s_empty, host |-> s_empty, err |-> NoErr]

Init ==
    /\ op = "idle"
    /\ a = NilAddr
    /\ m = NilMaddr
    /\ ip = <<>>
    /\ key = s_empty
    /\ rm = NoRm
    /\ ra = NoRa
    /\ rd = NoRd

CallFromNetAddr ==
    /\ op = "idle"
    /\ \E x \in NetAddrs :
        /\ a' = x
        /\ rm' = FromNetAddr(x)
    /\ op' = "FromNetAddr"
    /\ UNCHANGED <<m, ip, key, ra, rd>>

\* ToNetAddr on the Multiaddr FromNetAddr has just returned.
CallToNetAddrOfResult ==
    /\ op = "FromNetAddr"
    /\ rm.err = NoErr
    /\ m' = rm.m
    /\ ra' = ToNetAddr(rm.m)
    /\ op' = "RoundTrip"
    /\ UNCHANGED <<a, ip, key, rm, rd>>

\* spec.ParseNetAddr(x) of a registered AddressSpec.
CallParseNetAddr ==
    /\ op = "idle"
    /\ \E s \in RegisteredSpecs, x \in NetAddrs :
        /\ key' = s.Key
        /\ a' = x
        /\ rm' = Parsed(s.ParseNetAddr, CallAddrParser(s.ParseNetAddr, x))
    /\ op' = "ParseNetAddr"
    /\ UNCHANGED <<m, ip, ra, rd>>

CallToNetAddr ==
    /\ op = "idle"
    /\ \E x \in Maddrs :
        /\ m' = x
        /\ ra' = ToNetAddr(x)
    /\ op' = "ToNetAddr"
    /\ UNCHANGED <<a, ip, key, rm, rd>>

CallDialArgs ==
    /\ op = "idle"
    /\ \E x \in Maddrs :
        /\ m' = x
        /\ rd' = DialArgs(x)
    /\ op' = "DialArgs"
    /\ UNCHANGED <<a, ip, key, rm, ra>>

CallFromIP ==
    /\ op = "idle"
    /\ \E x \in IPs :
        /\ ip' = x
        /\ rm' = Parsed("none", FromIP(x))
    /\ op' = "FromIP"
    /\ UNCHANGED <<a, m, key, ra, rd>>

\* The caller has the result and is ready for its next call.
Return ==
    /\ op # "idle"
    /\ op' = "idle"
    /\ a' = NilAddr
    /\ m' = NilMaddr
    /\ ip' = <<>>
    /\ key' = s_empty
    /\ rm' = NoRm
    /\ ra' = NoRa
    /\ rd' = NoRd

Next ==
    \/ CallFromNetAddr
    \/ CallToNetAddrOfResult
    \/ CallParseNetAddr
    \/ CallToNetAddr
    \/ CallDialArgs
    \/ CallFromIP
    \/ Return

Spec == Init /\ [][Next]_vars


\* ------------------------------------------------------------------------
\* Properties
\* ------------------------------------------------------------------------

\* The port a two-byte segment value carries.
PortOf(val) == val[1] * 256 + val[2]

\* An IP with a 4-byte form: four bytes, or sixteen with the IPv4-mapped
\* prefix.
Is4(i) ==
    \/ Len(i) = 4
    \/ Len(i) = 16 /\ SubSeq(i, 1, 12) = <<0, 0, 0, 0, 0, 0, 0, 0, 0, 0, 255, 255>>

\* A native address of a supported kind: a TCP, UDP or bare IP address, or
\* a utp address over a UDP child, with a 4-byte or 16-byte IP and a port
\* of 16 bits.
SupportedAddr(x) ==
    /\ \/ x.type \in {"TCPAddr", "UDPAddr", "IPAddr"}
       \/ x.type = "utp.Addr" /\ x.childType = "UDPAddr"
    /\ Len(x.ip) \in {4, 16}
    /\ x.port \in 0..65535

\* C1: for every native address a of a supported kind FromNetAddr(a)
\* succeeds, and ToNetAddr of its result succeeds and yields an address of
\* the same kind (for utp: over a UDP child) with the same IP and port.
C1_RoundTrip ==
    /\ (op = "FromNetAddr" /\ SupportedAddr(a)) => rm.err = NoErr
    /\ (op = "RoundTrip" /\ SupportedAddr(a)) =>
            /\ ~ra.panicked
            /\ ra.err = NoErr
            /\ ra.addr.type = a.type
            /\ ra.addr.childType = a.childType
            /\ IPEqual(ra.addr.ip, a.ip)
            /\ ra.addr.port = a.port

\* C2: DialArgs returns the not-thin-waist error, with an empty network
\* name and an empty host, for every m that is not thin waist (such as
\* ip4,tcp,tcp), and no error for every m that is.
C2_DialArgsNotThinWaist ==
    op = "DialArgs" =>
        IF IsThinWaist(m) THEN rd.err = NoErr
        ELSE /\ rd.err.kind = "NotThinWaist"
             /\ rd.network = s_empty
             /\ rd.host = s_empty

C2_Witness ==
    /\ op = "DialArgs"
    /\ Protocols(m) = <<s_ip4, s_tcp, s_tcp>>
    /\ rd.err.kind = "NotThinWaist"

\* The network name of the components of a thin-waist address with a
\* transport: the 3rd component, "utp" when the 3rd is "udp" and a 5th
\* exists and is "utp", then "4" for ip4 and "6" for ip6.
C3_Name(parts) ==
    (IF parts[3] = s_udp /\ Len(parts) >= 5 /\ parts[5] = s_utp
     THEN s_utp ELSE parts[3])
    \o (IF parts[1] = s_ip4 THEN <<"4">> ELSE <<"6">>)

\* C3: for every thin-waist address with a transport segment the network
\* name DialArgs returns is the transport name of the 3rd component, "utp"
\* in place of "udp" exactly when the 5th component is "utp", followed by
\* "4" or "6"; it is one of tcp4, tcp6, udp4, udp6, utp4, utp6, and that of
\* ip/udp/utp is never udp4 or udp6.
C3_NetworkName ==
    (op = "DialArgs" /\ IsThinWaist(m) /\ Len(m) >= 2) =>
        /\ rd.network = C3_Name(Tail(Split(String(m), "/")))
        /\ rd.network \in {s_tcp4, s_tcp6, s_udp4, s_udp6, s_utp4, s_utp6}
        /\ (rd.network \in {s_utp4, s_utp6}) <=> (Len(m) = 3)
        /\ Len(m) = 3 => rd.network \notin {s_udp4, s_udp6}
        /\ rd.network[Len(rd.network)] = m[1].name[3]

C3_Witness ==
    /\ op = "DialArgs"
    /\ Protocols(m) = <<s_ip4, s_udp, s_utp>>
    /\ rd.network = s_utp4

\* C4: the host DialArgs returns for a thin-waist address with a transport
\* is ip ":" port for ip4 and "[" ip "]:" port for ip6; for a bare IP
\* DialArgs returns the protocol name ("ip4" or "ip6") and the address,
\* with no port and no brackets.
C4_Host ==
    (op = "DialArgs" /\ IsThinWaist(m)) =>
        IF Len(m) = 1
        THEN /\ rd.network = m[1].name
             /\ rd.host = IPString(m[1].val)
        ELSE IF m[1].name = s_ip4
        THEN rd.host = IPString(m[1].val) \o <<":">> \o Itoa(PortOf(m[2].val))
        ELSE rd.host = <<"[">> \o IPString(m[1].val) \o <<"]", ":">>
                       \o Itoa(PortOf(m[2].val))

C4_Witness ==
    /\ op = "DialArgs"
    /\ m = <<Seg(s_ip6, ip6_lo), Seg(s_udp, <<4, 210>>)>>
    /\ rd.network = s_udp6
    /\ rd.host = <<"[", ":", ":", "1", "]", ":", "1", "2", "3", "4">>

\* The ParseNetAddr registered for a network name; "none" when the name is
\* among the NetNames of no AddressSpec.
C5_Registered(net) ==
    CASE net \in {s_tcp, s_tcp4, s_tcp6} -> "parseTcpNetAddr"
      [] net \in {s_udp, s_udp4, s_udp6} -> "parseUdpNetAddr"
      [] net \in {s_utp, s_utp4, s_utp6} -> "parseUtpNetAddr"
      [] net \in {s_ip4, s_ip6} -> "parseIpNetAddr"
      [] OTHER -> "none"

\* C5: FromNetAddr fails with the nil-address error for a nil address,
\* and with the unsupported-network error, calling no converter, for an
\* address whose network name has no registered spec; otherwise it returns
\* what the ParseNetAddr registered for that name returns.
C5_FromNetAddrDispatch ==
    op = "FromNetAddr" =>
        IF a.type = "nil"
        THEN rm.err.kind = "NilMultiaddr" /\ rm.parser = "none" /\ rm.m = NilMaddr
        ELSE IF C5_Registered(a.net) = "none"
        THEN /\ rm.err.kind = "UnsupportedNetwork"
             /\ rm.parser = "none"
             /\ rm.m = NilMaddr
        ELSE /\ rm.parser = C5_Registered(a.net)
             /\ rm.err = CallAddrParser(C5_Registered(a.net), a).err
             /\ rm.m = CallAddrParser(C5_Registered(a.net), a).m

C5_Witness ==
    /\ op = "FromNetAddr"
    /\ a.type = "other"
    /\ a.net = s_unix
    /\ rm.err.kind = "UnsupportedNetwork"

\* C6: ToNetAddr selects the converter by the name of the last protocol
\* segment alone: when that name is the Key of no spec it fails with the
\* unsupported-network error and calls no converter, otherwise it returns
\* what that spec's ConvertMultiaddr returns.
C6_ToNetAddrDispatch ==
    (op = "ToNetAddr" /\ Len(m) >= 1) =>
        IF m[Len(m)].name \notin {s_tcp, s_udp, s_utp, s_ip4, s_ip6}
        THEN /\ ra.err.kind = "UnsupportedNetwork"
             /\ ra.parser = "none"
             /\ ra.resolver = "none"
             /\ ra.addr = NilAddr
        ELSE /\ ra.parser = "parseBasicNetMaddr"
             /\ ra.err = parseBasicNetMaddr(m).err
             /\ ra.addr = parseBasicNetMaddr(m).addr
             /\ ~ra.panicked

C6_Witness ==
    /\ op = "ToNetAddr"
    /\ Protocols(m) = <<s_ip4, s_udp, s_utp>>
    /\ ra.parser = "parseBasicNetMaddr"
    /\ ra.err = NoErr
    /\ ra.addr.type = "utp.Addr"

\* C7: FromIP returns a single ip4 segment for every IP with a 4-byte form
\* (4 bytes, or 16 bytes IPv4-mapped), a single ip6 segment for every other
\* 16-byte IP, and the incorrect-address error for every other IP value,
\* the nil IP among them.
C7_FromIP ==
    op = "FromIP" =>
        IF Is4(ip)
        THEN rm.err = NoErr /\ Protocols(rm.m) = <<s_ip4>>
        ELSE IF Len(ip) = 16
        THEN rm.err = NoErr /\ Protocols(rm.m) = <<s_ip6>>
        ELSE rm.err = errIncorrectNetAddr /\ rm.m = NilMaddr

C7_Witness ==
    /\ op = "FromIP"
    /\ ip = IPv4(ip4_b)
    /\ Protocols(rm.m) = <<s_ip4>>

\* C8: ToNetAddr returns a native address for thin-waist addresses only:
\* for an address that is not thin waist and whose last protocol has a
\* registered spec it returns the not-thin-waist error of DialArgs,
\* unchanged, and calls no resolver.
C8_ToNetAddrThinWaistOnly ==
    op = "ToNetAddr" =>
        /\ (~ra.panicked /\ ra.err = NoErr) => IsThinWaist(m)
        /\ ( /\ Len(m) >= 1
             /\ ~IsThinWaist(m)
             /\ m[Len(m)].name \in {s_tcp, s_udp, s_utp, s_ip4, s_ip6} ) =>
                /\ ra.err = DialArgs(m).err
                /\ ra.err.kind = "NotThinWaist"
                /\ ra.resolver = "none"
                /\ ra.addr = NilAddr

C8_Witness ==
    /\ op = "ToNetAddr"
    /\ Protocols(m) = <<s_ip4, s_tcp, s_tcp>>
    /\ ra.err.kind = "NotThinWaist"
    /\ ra.resolver = "none"

\* C9: ToNetAddr ends by returning a native address or an error for every
\* layered address, one with an empty protocol list among them; it never
\* aborts.
C9_ToNetAddrNeverAborts ==
    op \in {"ToNetAddr", "RoundTrip"} => ~ra.panicked

\* The concrete shape the ParseNetAddr of the spec of that Key expects.
C10_ShapeOk(k, x) ==
    CASE k = s_tcp -> x.type = "TCPAddr"
      [] k = s_udp -> x.type = "UDPAddr"
      [] k = s_utp -> x.type = "utp.Addr" /\ x.childType = "UDPAddr"

\* The segments of the IP i, of the port p in two bytes, and of the utp
\* marker for the spec of Key k.
C10_Segments(k, i, p) ==
    <<IF Is4(i) THEN Seg(s_ip4, To4(i)) ELSE Seg(s_ip6, i)>>
    \o <<Seg(IF k = s_tcp THEN s_tcp ELSE s_udp, <<p \div 256, p % 256>>)>>
    \o (IF k = s_utp THEN <<Seg(s_utp, <<>>)>> ELSE <<>>)

\* C10 as stated: a transport ParseNetAddr returns the incorrect-address
\* error when the address is not of its concrete shape or its IP is of
\* neither 4 nor 16 bytes; otherwise the result is the IP segment followed
\* by the transport segment with the address's port (and the utp marker);
\* every successful FromNetAddr result is thin waist.
C10_Original ==
    /\ (op = "ParseNetAddr" /\ key \in {s_tcp, s_udp, s_utp}) =>
            IF ~C10_ShapeOk(key, a) \/ Len(a.ip) \notin {4, 16}
            THEN rm.err = errIncorrectNetAddr
            ELSE /\ rm.err = NoErr
                 /\ Len(rm.m) >= 2
                 /\ PortOf(rm.m[2].val) = a.port
                 /\ rm.m = C10_Segments(key, a.ip, a.port)
    /\ (op = "FromNetAddr" /\ rm.err = NoErr) => IsThinWaist(rm.m)

\* C10, amended: the incorrect-address error is also returned when the
\* port is 65536 or more, and the transport segment carries the port as
\* uint16(port), the port itself when it is in 0..65535.
C10_TransportParsers ==
    /\ (op = "ParseNetAddr" /\ key \in {s_tcp, s_udp, s_utp}) =>
            IF \/ ~C10_ShapeOk(key, a)
               \/ Len(a.ip) \notin {4, 16}
               \/ a.port >= 65536
            THEN rm.err = errIncorrectNetAddr /\ rm.m = NilMaddr
            ELSE /\ rm.err = NoErr
                 /\ rm.m = C10_Segments(key, a.ip, a.port % 65536)
                 /\ a.port \in 0..65535 => PortOf(rm.m[2].val) = a.port
                 /\ IsThinWaist(rm.m)
    /\ (op = "FromNetAddr" /\ rm.err = NoErr) => IsThinWaist(rm.m)

C10_Witness ==
    /\ op = "ParseNetAddr"
    /\ key = s_utp
    /\ a = UtpAddr(UDPAddr(ip6_doc, 65535))
    /\ rm.err = NoErr
    /\ Protocols(rm.m) = <<s_ip6, s_udp, s_utp>>

=============================================================================
